---- MODULE Spec2Model ----
(***************************************************************************)
(* Model of clusterlib/storage.py: sqlite3_loads and sqlite3_dumps, called *)
(* by several independent callers against one database file.               *)
(*                                                                         *)
(* The database file is modelled by fileExists (the file is on disk),      *)
(* tableExists (the table "dict" has been created and committed), rows     *)
(* (the committed records of "dict", in insertion order) and writer (the   *)
(* caller holding sqlite's RESERVED lock, 0 when nobody does).  Waiting    *)
(* for a lock is a disabled action; the 7200 s busy timeout is not         *)
(* modelled, no caller of this module holds a lock across a blocking step. *)
(***************************************************************************)
EXTENDS Integers, Sequences, FiniteSets, TLC

(* ---------------------------------------------------------------------- *)
(* Bounds                                                                 *)
(* ---------------------------------------------------------------------- *)
MaxCalls == 3       \* calls issued in one behaviour, over all callers
MaxKeys == 2        \* longest list of keys handed to sqlite3_loads
MaxDepth == 2       \* nesting depth of the values of the round-trip spec
MaxLen == 1         \* longest list inside a value of the round-trip spec

Procs == {1, 2}
RTProcs == {1}
Keys == {"a", "b"}

(* ---------------------------------------------------------------------- *)
(* Python values: None, small ints, lists, and a function object (which   *)
(* pickle cannot serialise).  One record shape for all of them.           *)
(* ---------------------------------------------------------------------- *)
PyNone == [tag |-> "none", n |-> 0, items |-> <<>>]
PyInt(i) == [tag |-> "int", n |-> i, items |-> <<>>]
PyList(s) == [tag |-> "list", n |-> 0, items |-> s]
PyFunc == [tag |-> "func", n |-> 0, items |-> <<>>]
PyMark == [tag |-> "mark", n |-> 0, items |-> <<>>]
PyError == [tag |-> "error", n |-> 0, items |-> <<>>]

RECURSIVE Picklable(_)
Picklable(v) ==
    CASE v.tag = "none" -> TRUE
      [] v.tag = "int" -> TRUE
      [] v.tag = "list" -> \A i \in 1..Len(v.items) : Picklable(v.items[i])
      [] OTHER -> FALSE

(* pickle opcodes and protocol numbers *)
PROTO == 128
FRAME == 149
MEMOIZE == 148
NONE == 78
BININT1 == 75
EMPTY_LIST == 93
MARK == 40
APPEND == 97
APPENDS == 101
STOP == 46
HIGHEST_PROTOCOL == 5
FRAME_SIZE_MIN == 4

RECURSIVE Flatten(_)
Flatten(ss) == IF Len(ss) = 0 THEN <<>> ELSE Head(ss) \o Flatten(Tail(ss))

(* 8-byte little-endian length that follows the FRAME opcode *)
RECURSIVE LittleEndian(_, _)
LittleEndian(x, nbytes) ==
    IF nbytes = 0 THEN <<>> ELSE <<x % 256>> \o LittleEndian(x \div 256, nbytes - 1)

(* Pickler.save_list's item batching: no opcode for an empty list, APPEND *)
(* for one item, MARK item.. APPENDS for several.                          *)
batch_appends_noMark(saved) ==
    IF Len(saved) = 0 THEN <<>>
    ELSE IF Len(saved) = 1 THEN saved[1] \o <<APPEND>>
    ELSE Flatten(saved) \o <<APPENDS>>

batch_appends(saved) ==
    IF Len(saved) = 0 THEN <<>>
    ELSE IF Len(saved) = 1 THEN saved[1] \o <<APPEND>>
    ELSE <<MARK>> \o Flatten(saved) \o <<APPENDS>>

RECURSIVE save(_)
save(v) ==
    CASE v.tag = "none" -> <<NONE>>
      [] v.tag = "int" -> <<BININT1, v.n % 256>>
      [] v.tag = "list" ->
            <<EMPTY_LIST, MEMOIZE>>
              \o batch_appends([i \in 1..Len(v.items) |-> save(v.items[i])])
      [] OTHER -> <<>>

(* pickle.dumps(value, protocol=pickle.HIGHEST_PROTOCOL) of a picklable value *)
pickle_dumps(v) ==
    LET body == save(v) \o <<STOP>>
    IN <<PROTO, HIGHEST_PROTOCOL>>
         \o (IF Len(body) >= FRAME_SIZE_MIN
             THEN <<FRAME>> \o LittleEndian(Len(body), 8)
             ELSE <<>>)
         \o body

(* index of the topmost MARK on the unpickler's stack, 0 if there is none *)
RECURSIVE TopMark(_, _)
TopMark(stack, i) ==
    IF i = 0 THEN 0
    ELSE IF stack[i].tag = "mark" THEN i
    ELSE TopMark(stack, i - 1)

(* the unpickler: a stack machine over the opcodes, PyError on a bad pickle *)
RECURSIVE Unpickle(_, _, _)
Unpickle(b, pos, stack) ==
    IF pos > Len(b) THEN PyError
    ELSE LET opc == b[pos]
             top == Len(stack)
         IN CASE opc = PROTO ->
                   IF pos + 1 <= Len(b) /\ b[pos + 1] <= HIGHEST_PROTOCOL
                   THEN Unpickle(b, pos + 2, stack) ELSE PyError
              [] opc = FRAME ->
                   IF pos + 8 <= Len(b) THEN Unpickle(b, pos + 9, stack) ELSE PyError
              [] opc = MEMOIZE ->
                   IF top >= 1 THEN Unpickle(b, pos + 1, stack) ELSE PyError
              [] opc = NONE -> Unpickle(b, pos + 1, Append(stack, PyNone))
              [] opc = BININT1 ->
                   IF pos + 1 <= Len(b)
                   THEN Unpickle(b, pos + 2, Append(stack, PyInt(b[pos + 1])))
                   ELSE PyError
              [] opc = EMPTY_LIST -> Unpickle(b, pos + 1, Append(stack, PyList(<<>>)))
              [] opc = MARK -> Unpickle(b, pos + 1, Append(stack, PyMark))
              [] opc = APPEND ->
                   IF top >= 2 /\ stack[top - 1].tag = "list" /\ stack[top].tag # "mark"
                   THEN Unpickle(b, pos + 1,
                          Append(SubSeq(stack, 1, top - 2),
                                 PyList(Append(stack[top - 1].items, stack[top]))))
                   ELSE PyError
              [] opc = APPENDS ->
                   LET m == TopMark(stack, top)
                   IN IF m >= 2 /\ stack[m - 1].tag = "list"
                      THEN Unpickle(b, pos + 1,
                             Append(SubSeq(stack, 1, m - 2),
                                    PyList(stack[m - 1].items \o SubSeq(stack, m + 1, top))))
                      ELSE PyError
              [] opc = STOP ->
                   IF top >= 1 /\ stack[top].tag # "mark" THEN stack[top] ELSE PyError
              [] OTHER -> PyError

(* pickle.loads(bytes(value)) *)
pickle_loads(b) == Unpickle(b, 1, <<>>)


(* ---------------------------------------------------------------------- *)
(* Inputs of the callers                                                  *)
(* ---------------------------------------------------------------------- *)
SeqsOver(S, n) == UNION {[1..m -> S] : m \in 0..n}

StoreValues == {PyNone, PyList(<<PyInt(1), PyList(<<PyNone>>)>>), PyFunc}

KeyLists == SeqsOver(Keys, MaxKeys)

Scalars == {PyNone, PyInt(STOP)}

RECURSIVE ValuesOfDepth(_)
ValuesOfDepth(d) ==
    IF d = 0 THEN Scalars
    ELSE LET below == ValuesOfDepth(d - 1)
         IN below \cup {PyList(s) : s \in SeqsOver(below, MaxLen)}

DeepValues == ValuesOfDepth(MaxDepth)

(* ---------------------------------------------------------------------- *)
(* State                                                                  *)
(* ---------------------------------------------------------------------- *)
VARIABLES
    fileExists,     \* os.path.exists(fname)
    tableExists,    \* table "dict" is committed in the file
    rows,           \* committed records of "dict": <<[key, value]>>, insertion order
    writer,         \* caller holding the RESERVED lock of the file, 0 if none
    pc,             \* position of each caller
    op,             \* "load" or "store": the function the caller is in
    key,            \* local `key` of sqlite3_loads after line 46; <<key>> in sqlite3_dumps
    isStr,          \* the key argument was a str, not a list
    val,            \* the value argument of sqlite3_dumps
    blob,           \* local `value` of sqlite3_dumps after line 91
    txn,            \* uncommitted state of "dict" in the caller's open transaction
    out,            \* local `out` of sqlite3_loads: what fetchone gave for each key so far
    conn,           \* the caller's sqlite3 connection: "none", "open", "closed"
    result,         \* value returned by sqlite3_loads
    err,            \* exception raised by the call, "" if none
    ncalls,         \* number of calls issued so far
    startLen,       \* history: Len(rows) when the caller's call began
    endLen,         \* history: Len(rows) when the caller's call ended
    stored          \* history: <<[key, value]>> of the sqlite3_dumps calls that returned

vars == <<fileExists, tableExists, rows, writer, pc, op, key, isStr, val, blob, txn,
          out, conn, result, err, ncalls, startLen, endLen, stored>>

dbVars == <<fileExists, tableExists, rows>>

NoRow == [found |-> FALSE, value |-> <<>>]

KeysOf(rs) == {rs[i].key : i \in 1..Len(rs)}

Prefix(rs, n) == SubSeq(rs, 1, IF n <= Len(rs) THEN n ELSE Len(rs))

Ended(p) == pc[p] \in {"done", "failed"}

Init ==
    /\ fileExists = FALSE
    /\ tableExists = FALSE
    /\ rows = <<>>
    /\ writer = 0
    /\ pc = [p \in Procs |-> "idle"]
    /\ op = [p \in Procs |-> "none"]
    /\ key = [p \in Procs |-> <<>>]
    /\ isStr = [p \in Procs |-> FALSE]
    /\ val = [p \in Procs |-> PyNone]
    /\ blob = [p \in Procs |-> <<>>]
    /\ txn = [p \in Procs |-> <<>>]
    /\ out = [p \in Procs |-> <<>>]
    /\ conn = [p \in Procs |-> "none"]
    /\ result = [p \in Procs |-> PyNone]
    /\ err = [p \in Procs |-> ""]
    /\ ncalls = 0
    /\ startLen = [p \in Procs |-> 0]
    /\ endLen = [p \in Procs |-> 0]
    /\ stored = <<>>

(* a caller issues its next call once the previous one has ended and its  *)
(* connection object has been reclaimed                                   *)
CanCall(p) ==
    /\ pc[p] \in {"idle", "done", "failed"}
    /\ conn[p] # "open"
    /\ ncalls < MaxCalls

(* ---------------------------------------------------------------------- *)
(* The sqlite engine, as far as the two functions use it                  *)
(* ---------------------------------------------------------------------- *)

(* SELECT value FROM dict where key = ?  followed by fetchone() *)
Select_otherKey(rs, k) ==
    IF Len(rs) > 0 THEN [found |-> TRUE, value |-> rs[1].value] ELSE NoRow

Select(rs, k) ==
    IF k \in KeysOf(rs)
    THEN [found |-> TRUE, value |-> rs[CHOOSE i \in 1..Len(rs) : rs[i].key = k].value]
    ELSE NoRow

(* the PRIMARY KEY constraint of column key, checked by INSERT *)
PrimaryKeyViolated_never(rs, k) == FALSE

PrimaryKeyViolated(rs, k) == k \in KeysOf(rs)

(* INSERT takes the RESERVED lock: one write transaction at a time; a     *)
(* second writer waits (timeout=7200.0)                                   *)
CanReserve_noLock(p) == TRUE

CanReserve(p) == writer = 0

(* what other connections see of an INSERT that is not yet committed *)
UncommittedVisible_dirty(rs, row) == Append(rs, [key |-> row.key, value |-> <<>>])

UncommittedVisible(rs, row) == rs

(* ---------------------------------------------------------------------- *)
(* sqlite3_loads                                                          *)
(* ---------------------------------------------------------------------- *)
os_path_exists_always == TRUE

os_path_exists == fileExists

(* lines 68-72: "Ravel if needed" *)
Ravel(ks, o) == IF Len(ks) = 1 THEN o[1] ELSE PyList(o)

(* line 61: None if value is None else pickle.loads(bytes(value)) *)
Decode(r) == IF r.found THEN pickle_loads(r.value) ELSE PyNone

(* lines 59-72, once the loop is over: cursor.close(), end of the with     *)
(* block (which commits and leaves the connection open), decoding, ravel,  *)
(* return.  All of it is local to the caller.                              *)
LoadReturn(p, ks, o) ==
    LET decoded == [i \in 1..Len(o) |-> Decode(o[i])]
    IN /\ IF \E i \in 1..Len(decoded) : decoded[i] = PyError
          THEN /\ pc' = [pc EXCEPT ![p] = "failed"]
               /\ err' = [err EXCEPT ![p] = "UnpicklingError"]
               /\ result' = [result EXCEPT ![p] = PyNone]
          ELSE /\ pc' = [pc EXCEPT ![p] = "done"]
               /\ err' = [err EXCEPT ![p] = ""]
               /\ result' = [result EXCEPT ![p] = Ravel(ks, decoded)]
       /\ endLen' = [endLen EXCEPT ![p] = Len(rows)]

(* lines 45-51 when the file exists (and on to line 72 when no key is      *)
(* asked for), lines 45-46 and 63-72 when it does not                      *)
LoadCall(p, ks, str) ==
    /\ CanCall(p)
    /\ str => Len(ks) = 1
    /\ ncalls' = ncalls + 1
    /\ op' = [op EXCEPT ![p] = "load"]
    /\ key' = [key EXCEPT ![p] = ks]
    /\ isStr' = [isStr EXCEPT ![p] = str]
    /\ val' = [val EXCEPT ![p] = PyNone]
    /\ blob' = [blob EXCEPT ![p] = <<>>]
    /\ txn' = [txn EXCEPT ![p] = <<>>]
    /\ startLen' = [startLen EXCEPT ![p] = Len(rows)]
    /\ IF os_path_exists
       THEN /\ fileExists' = TRUE      \* sqlite3.connect opens, or creates, the file
            /\ conn' = [conn EXCEPT ![p] = "open"]
            /\ out' = [out EXCEPT ![p] = <<>>]
            /\ IF Len(ks) = 0
               THEN LoadReturn(p, ks, <<>>)
               ELSE /\ pc' = [pc EXCEPT ![p] = "l_select"]
                    /\ err' = [err EXCEPT ![p] = ""]
                    /\ result' = [result EXCEPT ![p] = PyNone]
                    /\ endLen' = [endLen EXCEPT ![p] = Len(rows)]
       ELSE /\ fileExists' = fileExists
            /\ conn' = [conn EXCEPT ![p] = "none"]
            /\ out' = [out EXCEPT ![p] = [i \in 1..Len(ks) |-> NoRow]]
            /\ result' = [result EXCEPT ![p] = Ravel(ks, [i \in 1..Len(ks) |-> PyNone])]
            /\ pc' = [pc EXCEPT ![p] = "done"]
            /\ err' = [err EXCEPT ![p] = ""]
            /\ endLen' = [endLen EXCEPT ![p] = Len(rows)]
    /\ UNCHANGED <<tableExists, rows, writer, stored>>

(* lines 52-58: one turn of the loop; the SELECT runs in autocommit mode,  *)
(* each one reads the committed state of the moment.  After the last key,  *)
(* lines 59-72.                                                            *)
LoadSelect(p) ==
    /\ pc[p] = "l_select"
    /\ Len(out[p]) < Len(key[p])
    /\ IF tableExists
       THEN LET o == Append(out[p], Select(rows, key[p][Len(out[p]) + 1]))
            IN /\ out' = [out EXCEPT ![p] = o]
               /\ IF Len(o) = Len(key[p])
                  THEN LoadReturn(p, key[p], o)
                  ELSE UNCHANGED <<pc, err, result, endLen>>
       ELSE /\ pc' = [pc EXCEPT ![p] = "failed"]   \* no such table: dict
            /\ err' = [err EXCEPT ![p] = "OperationalError"]
            /\ endLen' = [endLen EXCEPT ![p] = Len(rows)]
            /\ UNCHANGED <<out, result>>
    /\ UNCHANGED <<dbVars, writer, op, key, isStr, val, blob, txn, conn,
                   ncalls, startLen, stored>>

(* ---------------------------------------------------------------------- *)
(* sqlite3_dumps                                                          *)
(* ---------------------------------------------------------------------- *)

(* line 91: pickle.dumps, which raises before any connection is made;     *)
(* line 93: sqlite3.connect creates the (empty) file when there is none   *)
StoreCall(p, k, v) ==
    /\ CanCall(p)
    /\ ncalls' = ncalls + 1
    /\ op' = [op EXCEPT ![p] = "store"]
    /\ key' = [key EXCEPT ![p] = <<k>>]
    /\ isStr' = [isStr EXCEPT ![p] = TRUE]
    /\ val' = [val EXCEPT ![p] = v]
    /\ txn' = [txn EXCEPT ![p] = <<>>]
    /\ out' = [out EXCEPT ![p] = <<>>]
    /\ result' = [result EXCEPT ![p] = PyNone]
    /\ startLen' = [startLen EXCEPT ![p] = Len(rows)]
    /\ endLen' = [endLen EXCEPT ![p] = Len(rows)]
    /\ IF Picklable(v)
       THEN /\ blob' = [blob EXCEPT ![p] = pickle_dumps(v)]
            /\ fileExists' = TRUE
            /\ conn' = [conn EXCEPT ![p] = "open"]
            /\ pc' = [pc EXCEPT ![p] = "s_create"]
            /\ err' = [err EXCEPT ![p] = ""]
       ELSE /\ blob' = [blob EXCEPT ![p] = <<>>]
            /\ fileExists' = fileExists
            /\ conn' = [conn EXCEPT ![p] = "none"]
            /\ pc' = [pc EXCEPT ![p] = "failed"]
            /\ err' = [err EXCEPT ![p] = "PicklingError"]
    /\ UNCHANGED <<tableExists, rows, writer, stored>>

(* lines 96-97: CREATE TABLE IF NOT EXISTS, a statement of its own that is *)
(* committed at once (DDL opens no transaction)                            *)
StoreCreate(p) ==
    /\ pc[p] = "s_create"
    /\ tableExists \/ writer = 0
    /\ tableExists' = TRUE
    /\ pc' = [pc EXCEPT ![p] = "s_insert"]
    /\ UNCHANGED <<fileExists, rows, writer, op, key, isStr, val, blob, txn, out, conn,
                   result, err, ncalls, startLen, endLen, stored>>

(* lines 100-101: implicit BEGIN and INSERT; on a constraint failure the   *)
(* with block rolls back and re-raises                                     *)
StoreInsert(p) ==
    /\ pc[p] = "s_insert"
    /\ CanReserve(p)
    /\ LET row == [key |-> key[p][1], value |-> blob[p]]
       IN IF PrimaryKeyViolated(rows, row.key)
          THEN /\ pc' = [pc EXCEPT ![p] = "failed"]
               /\ err' = [err EXCEPT ![p] = "IntegrityError"]
               /\ endLen' = [endLen EXCEPT ![p] = Len(rows)]
               /\ UNCHANGED <<rows, writer, txn>>
          ELSE /\ txn' = [txn EXCEPT ![p] = Append(rows, row)]
               /\ writer' = p
               /\ rows' = UncommittedVisible(rows, row)
               /\ pc' = [pc EXCEPT ![p] = "s_commit"]
               /\ UNCHANGED <<err, endLen>>
    /\ UNCHANGED <<fileExists, tableExists, op, key, isStr, val, blob, out, conn,
                   result, ncalls, startLen, stored>>

(* line 94, leaving the with block: commit; the connection stays open *)
StoreCommit(p) ==
    /\ pc[p] = "s_commit"
    /\ rows' = txn[p]
    /\ writer' = 0
    /\ stored' = Append(stored, [key |-> key[p][1], value |-> val[p]])
    /\ pc' = [pc EXCEPT ![p] = "done"]
    /\ endLen' = [endLen EXCEPT ![p] = Len(txn[p])]
    /\ UNCHANGED <<fileExists, tableExists, op, key, isStr, val, blob, txn, out, conn,
                   result, err, ncalls, startLen>>

(* neither function calls connection.close(): the handle is closed when    *)
(* the interpreter reclaims the connection object, some time after the     *)
(* call has ended                                                          *)
Finalize(p) ==
    /\ Ended(p)
    /\ conn[p] = "open"
    /\ conn' = [conn EXCEPT ![p] = "closed"]
    /\ UNCHANGED <<dbVars, writer, pc, op, key, isStr, val, blob, txn, out,
                   result, err, ncalls, startLen, endLen, stored>>

Next ==
    \E p \in Procs :
        \/ \E ks \in KeyLists : \E str \in BOOLEAN : LoadCall(p, ks, str)
        \/ LoadSelect(p)
        \/ \E k \in Keys : \E v \in StoreValues : StoreCall(p, k, v)
        \/ StoreCreate(p)
        \/ StoreInsert(p)
        \/ StoreCommit(p)
        \/ Finalize(p)

Spec == Init /\ [][Next]_vars

(* one caller storing one value into a new store and then loading its key: *)
(* the round trip, over all values up to MaxDepth and MaxLen               *)
NextRT ==
    \E p \in RTProcs :
        \/ \E k \in Keys : LoadCall(p, <<k>>, TRUE)
        \/ LoadSelect(p)
        \/ ncalls = 0 /\ \E k \in Keys : \E v \in DeepValues \cup StoreValues : StoreCall(p, k, v)
        \/ StoreCreate(p)
        \/ StoreInsert(p)
        \/ StoreCommit(p)
        \/ Finalize(p)

SpecRT == Init /\ [][NextRT]_vars

(* ---------------------------------------------------------------------- *)
(* Properties                                                             *)
(* ---------------------------------------------------------------------- *)

(* the value handed to the sqlite3_dumps call that returned for key k *)
StoredValue(k) ==
    IF k \in KeysOf(stored)
    THEN stored[CHOOSE i \in 1..Len(stored) : stored[i].key = k].value
    ELSE PyError

(* the keys whose sqlite3_dumps call had returned when the call of p began, ended *)
StoredAtStart(p) == KeysOf(Prefix(stored, startLen[p]))
StoredAtEnd(p) == KeysOf(Prefix(stored, endLen[p]))

(* what the store held for key k when n stores had returned: the value    *)
(* passed to sqlite3_dumps, None when k had no record                     *)
ContentAt(n, k) == IF k \in KeysOf(Prefix(stored, n)) THEN StoredValue(k) ELSE PyNone

LoadDone(p) == op[p] = "load" /\ pc[p] = "done"

(* what a returned sqlite3_loads gives for the i-th requested key *)
ResultFor(p, i) ==
    IF Len(key[p]) = 1 THEN result[p]
    ELSE IF result[p].tag = "list" /\ i <= Len(result[p].items) THEN result[p].items[i]
    ELSE PyError

IsNested(v) ==
    /\ v.tag = "list"
    /\ Len(v.items) >= 2
    /\ \E i \in 1..Len(v.items) : v.items[i].tag = "list" /\ Len(v.items[i].items) >= 1

(* C1: round trip.  A sqlite3_loads of the single key k that begins after  *)
(* sqlite3_dumps(fname, k, value) has returned does not fail and returns a *)
(* value equal to the one stored, nested lists included.                   *)
C1_RoundTrip ==
    \A p \in Procs :
        (op[p] = "load" /\ Ended(p) /\ isStr[p] /\ key[p][1] \in StoredAtStart(p))
            => (pc[p] = "done" /\ result[p] = StoredValue(key[p][1]))

C1_Witness ==
    \E p \in Procs :
        /\ LoadDone(p) /\ isStr[p] /\ key[p][1] \in StoredAtStart(p)
        /\ IsNested(result[p])

(* C2: no overwrite.  At most one sqlite3_dumps per key ever returns; the  *)
(* records keep the value of that first call; a sqlite3_dumps of a key     *)
(* that was present when it was called fails (with the duplicate-key       *)
(* IntegrityError once its value is pickled), and no step of a store whose *)
(* key is present changes the records.                                     *)
C2_State ==
    /\ \A i, j \in 1..Len(stored) : stored[i].key = stored[j].key => i = j
    /\ \A i, j \in 1..Len(rows) : rows[i].key = rows[j].key => i = j
    /\ \A k \in KeysOf(stored) :
          k \in KeysOf(rows) /\ Decode(Select(rows, k)) = StoredValue(k)
    /\ \A p \in Procs :
          (op[p] = "store" /\ Ended(p) /\ key[p][1] \in StoredAtStart(p))
              => /\ pc[p] = "failed"
                 /\ Picklable(val[p]) => err[p] = "IntegrityError"

C2_Step ==
    /\ Prefix(rows', Len(rows)) = rows
    /\ \A p \in Procs :
          (op[p] = "store" /\ ~Ended(p) /\ pc'[p] # pc[p] /\ key[p][1] \in KeysOf(rows))
              => rows' = rows

C2_NoOverwrite == []C2_State /\ [][C2_Step]_vars

C2_Witness ==
    \E p \in Procs :
        /\ op[p] = "store" /\ pc[p] = "failed" /\ err[p] = "IntegrityError"
        /\ key[p][1] \in StoredAtStart(p)
        /\ StoredValue(key[p][1]) # val[p]
        /\ Decode(Select(rows, key[p][1])) = StoredValue(key[p][1])

(* C3: a sqlite3_loads that asks for a key that was never inserted does    *)
(* not fail and returns None for that key, whatever the state of the file. *)
C3_AbsentKeyLoadsNone ==
    \A p \in Procs :
        (op[p] = "load" /\ Ended(p))
            => \A i \in 1..Len(key[p]) :
                  key[p][i] \notin KeysOf(rows)
                      => (pc[p] = "done" /\ ResultFor(p, i) = PyNone)

(* C4: sqlite3_loads is read-only.  No step of a load creates the file,    *)
(* creates the table or changes a record.                                  *)
C4_LoadReadOnly ==
    [][(\E p \in Procs :
           \/ ncalls' # ncalls /\ op'[p] = "load" /\ LoadCall(p, key'[p], isStr'[p])
           \/ LoadSelect(p))
         => UNCHANGED dbVars]_vars

C4_Witness ==
    \E p \in Procs : LoadDone(p) /\ ~fileExists /\ Len(key[p]) = MaxKeys

(* C5: for a list of keys, position i of the result of sqlite3_loads holds *)
(* the value stored under the i-th key, or None if that key has no record. *)
C5_ResultOrder ==
    \A p \in Procs :
        (LoadDone(p) /\ ~isStr[p])
            => /\ result[p].tag = "list"
               /\ Len(result[p].items) = Len(key[p])
               /\ \A i \in 1..Len(key[p]) :
                     /\ result[p].items[i] \in {PyNone, StoredValue(key[p][i])}
                     /\ key[p][i] \in StoredAtStart(p)
                           => result[p].items[i] = StoredValue(key[p][i])
                     /\ key[p][i] \notin StoredAtEnd(p) => result[p].items[i] = PyNone

(* C6: result shape.  A str key gives the bare value; a list of keys gives *)
(* the list of the values, one per key, for every length of the list.      *)
C6_ResultShape ==
    \A p \in Procs :
        LoadDone(p)
            => LET values == [i \in 1..Len(out[p]) |-> Decode(out[p][i])]
               IN IF isStr[p] THEN result[p] = values[1] ELSE result[p] = PyList(values)

(* C7: a sqlite3_dumps of a serializable value fails only when another     *)
(* call has stored its key before: stores with pairwise distinct keys,     *)
(* whatever their interleaving and whether or not the file and the table   *)
(* exist, all return normally.  The record of every store that returned    *)
(* stays in the store, with the value the call passed, and a load of its   *)
(* key that begins afterwards returns that value.                          *)
C7_DistinctKeysAllSucceed ==
    /\ \A p \in Procs :
          (op[p] = "store" /\ Ended(p) /\ Picklable(val[p]))
              => \/ /\ pc[p] = "done"
                    /\ endLen[p] \in 1..Len(stored)
                    /\ stored[endLen[p]] = [key |-> key[p][1], value |-> val[p]]
                 \/ /\ pc[p] = "failed"
                    /\ err[p] = "IntegrityError"
                    /\ key[p][1] \in StoredAtEnd(p)
    /\ \A i \in 1..Len(stored) :
          /\ stored[i].key \in KeysOf(rows)
          /\ Decode(Select(rows, stored[i].key)) = stored[i].value
    /\ \A p \in Procs :
          (LoadDone(p) /\ isStr[p] /\ key[p][1] \in StoredAtStart(p))
              => \E i \in 1..Len(stored) :
                    stored[i].key = key[p][1] /\ result[p] = stored[i].value

C7_Witness ==
    /\ ncalls = 2
    /\ \A p \in Procs : op[p] = "store" /\ pc[p] = "done" /\ startLen[p] = 0
    /\ key[1] # key[2]
    /\ \A p \in Procs : Decode(Select(rows, key[p][1])) = val[p]

(* C8: atomic store.  Whatever a load has fetched for key k at any point   *)
(* is no row or the complete pickle of the value of the sqlite3_dumps that *)
(* returned for k; a returned load gives None or that value; the records   *)
(* are exactly those of the stores that returned, so a failed store has    *)
(* added none.                                                             *)
C8_AtomicStore ==
    /\ \A p \in Procs :
          op[p] = "load"
              => \A i \in 1..Len(out[p]) :
                    out[p][i].found
                        => /\ key[p][i] \in KeysOf(stored)
                           /\ out[p][i].value = pickle_dumps(StoredValue(key[p][i]))
    /\ \A p \in Procs :
          LoadDone(p)
              => \A i \in 1..Len(key[p]) :
                    ResultFor(p, i) \in {PyNone, StoredValue(key[p][i])}
    /\ Len(rows) = Len(stored)
    /\ \A i \in 1..Len(rows) :
          i <= Len(stored)
              => rows[i] = [key |-> stored[i].key, value |-> pickle_dumps(stored[i].value)]

C8_Witness ==
    \E p \in Procs :
        /\ LoadDone(p)
        /\ \E i \in 1..Len(key[p]) :
              /\ key[p][i] \notin StoredAtStart(p)     \* the store had not returned
              /\ out[p][i].found
              /\ ResultFor(p, i) = StoredValue(key[p][i])
              /\ ResultFor(p, i).tag = "list"
        /\ \E q \in Procs : op[q] = "store" /\ pc[q] = "failed"

(* C9: when a call has returned or failed, its connection is closed and it *)
(* holds no lock on the file.                                              *)
C9_HandleReleased ==
    \A p \in Procs : Ended(p) => (conn[p] # "open" /\ writer # p)

(* C10: the result of a sqlite3_loads of a list of keys equals the content *)
(* of the store at one instant between the start and the end of the load.  *)
C10_Snapshot ==
    \A p \in Procs :
        (LoadDone(p) /\ ~isStr[p])
            => \E n \in startLen[p]..endLen[p] :
                  \A i \in 1..Len(key[p]) :
                      ResultFor(p, i) = ContentAt(n, key[p][i])

(* C10 as amended: each entry of the result equals the content of the      *)
(* store for its key at an instant between the start and the end of the    *)
(* load; the instants of later positions are not earlier, they need not be *)
(* the same.                                                               *)
C10_PerKeyInstants ==
    \A p \in Procs :
        (LoadDone(p) /\ ~isStr[p])
            => \E f \in [1..Len(key[p]) -> startLen[p]..endLen[p]] :
                  /\ \A i, j \in 1..Len(key[p]) : i < j => f[i] <= f[j]
                  /\ \A i \in 1..Len(key[p]) :
                        ResultFor(p, i) = ContentAt(f[i], key[p][i])

C10_Witness ==
    \E p \in Procs :
        /\ LoadDone(p) /\ ~isStr[p] /\ Len(key[p]) = 2
        /\ ~out[p][1].found /\ out[p][2].found
        /\ Len(rows) = 2 /\ rows[1].key = key[p][1] /\ rows[2].key = key[p][2]
        /\ endLen[p] = 2

====
